---- MODULE Spec2Model ----
(***************************************************************************)
(* News sentiment application: the analysis-and-aggregation pipeline of    *)
(* utils/gemini_service.py (GeminiService) over its file cache data/cache, *)
(* the translation of utils/text_to_speech.py (TextToSpeechService) and    *)
(* the batch driver of .ipynb_checkpoints/cron-checkpoint.py.              *)
(*                                                                         *)
(* Conventions of the model                                                *)
(*   - str values are TLA+ strings; s[:n] is Take(s, n).                   *)
(*   - a dict is a function whose domain is its set of keys; a JSON list   *)
(*     is a sequence; None is the empty function.                          *)
(*   - a sentiment score is held in hundredths (3.51 is 351), so that the  *)
(*     comparisons of the threshold table are integer comparisons.         *)
(*   - a text returned by the language model is [fence, json, obj,         *)
(*     numeric]: how the text is fenced, whether its body is invalid JSON, *)
(*     JSON that is not an object, or a JSON object, the object, and       *)
(*     whether the object's Sentiment_Score is a JSON number.              *)
(*   - last is the latest operation: its input, the outcome of its call of *)
(*     the model, the exception it raised ("" if none), the branch taken,  *)
(*     the value returned and the number of model calls it made.           *)
(*   - answered (history) maps an analyze_article input to the first       *)
(*     answer returned for it and the index of the operation that gave it, *)
(*     and a company to the final sentiment generated for it and the       *)
(*     analysis_result it was generated from.                              *)
(*   - translations is the second cache directory, data/cache/translations.*)
(*   - caller is one run of _call_api_with_retry: its position, its retry  *)
(*     counter, and (history) the outcome of each attempt and the length   *)
(*     of each sleep so far.                                               *)
(*   - batch is one run of BatchProcessor.process_company: its position,   *)
(*     the articles scraped, the index of the next one, analysis_result,   *)
(*     the count of successful analyses, (history) the list given to       *)
(*     generate_comparative_analysis, and the value returned.              *)
(*   - run is one run of BatchProcessor.process_all_companies: its         *)
(*     position, the company list, the index of the next company, the      *)
(*     results counters, and (history) what was done for each company and  *)
(*     the seconds slept.                                                  *)
(*   - race is two threads inside analyze_article for the same title and   *)
(*     content: each thread's position, the record it built, the value it  *)
(*     returned, and (history) the threads in the order of their writes.   *)
(***************************************************************************)
EXTENDS Integers, Sequences, FiniteSets, TLC

VARIABLES cache, last, answered, nOps, translations, caller, batch, run, race

vars == <<cache, last, answered, nOps, translations, caller, batch, run, race>>

(***************************************************************************)
(* Bounds                                                                  *)
(***************************************************************************)
MaxOps == 2

MaxArticles == 4

(***************************************************************************)
(* Python helpers                                                          *)
(***************************************************************************)
None == <<>>

Truthy(d) == DOMAIN d # {}

Take(s, n) == SubSeq(s, 1, IF Len(s) < n THEN Len(s) ELSE n)

Get(d, k, default) == IF k \in DOMAIN d THEN d[k] ELSE default

Put(d, k, v) == [f \in DOMAIN d \cup {k} |-> IF f = k THEN v ELSE d[f]]

RECURSIVE Rep(_, _)
Rep(s, n) == IF n = 0 THEN "" ELSE s \o Rep(s, n - 1)

(***************************************************************************)
(* Cache store (data/cache/<key>.json)                                     *)
(***************************************************************************)
get_cache_key(text) == <<"md5", text>>

\* The store maps a key to its file: [json |-> value] once json.dump wrote
\* it, Garbled when its content is not JSON (a cut-off or damaged file),
\* Locked when open() raises for it (permissions, a directory of that name).
json_dump(data) == [json |-> data]

json_load(file) == file.json

Garbled == [garbled |-> TRUE]

Locked == [locked |-> TRUE]

\* the file just after open(path, 'w'): empty, not JSON
Truncated == [truncated |-> TRUE]

\* open(path, 'r') and json.load both return
Readable(file) == "json" \in DOMAIN file

check_cache_blind(store, cache_key) == None

\* what is read without the try ... except: the failure in place of a value
check_cache_unguarded(store, cache_key) ==
    IF cache_key \in DOMAIN store
    THEN IF Readable(store[cache_key]) THEN json_load(store[cache_key])
         ELSE [raised |-> "OSError or JSONDecodeError"]
    ELSE None

check_cache(store, cache_key) ==
    IF cache_key \in DOMAIN store /\ Readable(store[cache_key])
    THEN json_load(store[cache_key])
    ELSE None

save_to_cache(store, cache_key, data) ==
    IF cache_key \in DOMAIN store /\ store[cache_key] = Locked
    THEN store
    ELSE [k \in DOMAIN store \cup {cache_key} |->
            IF k = cache_key THEN json_dump(data) ELSE store[k]]

(***************************************************************************)
(* Reading the model's text                                                *)
(***************************************************************************)
strip_fence(response_text) ==
    IF response_text.fence = "json" THEN [response_text EXCEPT !.fence = "none"]
    ELSE IF response_text.fence = "plain" THEN [response_text EXCEPT !.fence = "none"]
    ELSE response_text

json_loads(text) ==
    IF text.json = "invalid"
    THEN [error |-> "JSONDecodeError", is_dict |-> FALSE, value |-> None,
          numeric |-> FALSE]
    ELSE IF text.json = "object"
    THEN [error |-> "", is_dict |-> TRUE, value |-> text.obj,
          numeric |-> text.numeric]
    ELSE [error |-> "", is_dict |-> FALSE, value |-> None, numeric |-> FALSE]

(***************************************************************************)
(* GeminiService.analyze_article                                           *)
(***************************************************************************)
SentimentLabels ==
    {"Very Positive", "Positive", "Neutral", "Negative", "Very Negative"}

required_fields ==
    {"Title", "Summary", "Sentiment", "Sentiment_Score", "Topics",
     "Sentiment_Indicators"}

field_default_empty(field) ==
    IF field \in {"Topics", "Sentiment_Indicators"} THEN <<>>
    ELSE IF field = "Sentiment_Score" THEN 0
    ELSE ""

field_default(field) ==
    IF field \in {"Topics", "Sentiment_Indicators"} THEN <<>>
    ELSE IF field = "Sentiment_Score" THEN 300
    ELSE ""

fill_required(result) ==
    [field \in DOMAIN result \cup required_fields |->
        IF field \in DOMAIN result THEN result[field] ELSE field_default(field)]

preserve_title(result, title) ==
    IF "Title" \notin DOMAIN result \/ result["Title"] = ""
    THEN Put(result, "Title", title)
    ELSE result

sentiment_label_exclusive(score) ==
    IF score < 150 THEN "Very Negative"
    ELSE IF score < 250 THEN "Negative"
    ELSE IF score < 350 THEN "Neutral"
    ELSE IF score < 450 THEN "Positive"
    ELSE "Very Positive"

sentiment_label(score) ==
    IF score <= 150 THEN "Very Negative"
    ELSE IF score <= 250 THEN "Negative"
    ELSE IF score <= 350 THEN "Neutral"
    ELSE IF score <= 450 THEN "Positive"
    ELSE "Very Positive"

relabel(result) ==
    [result EXCEPT !["Sentiment"] = sentiment_label(result["Sentiment_Score"])]

analyze_article_saving_early(store, title, content, api) ==
    LET cache_key == get_cache_key(title \o "_" \o Take(content, 1000))
        cached_result == check_cache(store, cache_key)
        parsed == json_loads(strip_fence(api.text))
        result == relabel(preserve_title(fill_required(parsed.value), title))
    IN  IF Truthy(cached_result)
        THEN [error |-> "", path |-> "hit", result |-> cached_result,
              store |-> store, calls |-> 0]
        ELSE IF api.raised
        THEN [error |-> "ApiError", path |-> "miss", result |-> None,
              store |-> store, calls |-> 1]
        ELSE IF parsed.error # ""
        THEN [error |-> parsed.error, path |-> "miss", result |-> None,
              store |-> store, calls |-> 1]
        ELSE IF ~parsed.is_dict
        THEN [error |-> "TypeError", path |-> "miss", result |-> None,
              store |-> store, calls |-> 1]
        ELSE IF "Sentiment_Score" \in DOMAIN parsed.value /\ ~parsed.numeric
        THEN [error |-> "TypeError", path |-> "miss", result |-> None,
              store |-> save_to_cache(store, cache_key,
                          preserve_title(fill_required(parsed.value), title)),
              calls |-> 1]
        ELSE [error |-> "", path |-> "miss", result |-> result,
              store |-> save_to_cache(store, cache_key, result), calls |-> 1]

\* api is the outcome of _call_api_with_retry: [raised, text].
\* The value is [error, path, result, store, calls]: the exception raised ("" if
\* none), the branch taken, the record returned, the cache store afterwards and
\* the number of _call_api_with_retry calls made.
analyze_article(store, title, content, api) ==
    LET cache_key == get_cache_key(title \o "_" \o Take(content, 1000))
        cached_result == check_cache(store, cache_key)
        parsed == json_loads(strip_fence(api.text))
        result == relabel(preserve_title(fill_required(parsed.value), title))
    IN  IF Truthy(cached_result)
        THEN [error |-> "", path |-> "hit", result |-> cached_result,
              store |-> store, calls |-> 0]
        ELSE IF api.raised
        THEN [error |-> "ApiError", path |-> "miss", result |-> None,
              store |-> store, calls |-> 1]
        ELSE IF parsed.error # ""
        THEN [error |-> parsed.error, path |-> "miss", result |-> None,
              store |-> store, calls |-> 1]
        ELSE IF ~parsed.is_dict
        THEN [error |-> "TypeError", path |-> "miss", result |-> None,
              store |-> store, calls |-> 1]
        ELSE IF "Sentiment_Score" \in DOMAIN parsed.value /\ ~parsed.numeric
        THEN [error |-> "TypeError", path |-> "miss", result |-> None,
              store |-> store, calls |-> 1]
        ELSE [error |-> "", path |-> "miss", result |-> result,
              store |-> save_to_cache(store, cache_key, result), calls |-> 1]

(***************************************************************************)
(* GeminiService.generate_comparative_analysis                             *)
(***************************************************************************)
RECURSIVE Join(_, _)
Join(sep, parts) ==
    IF parts = <<>> THEN ""
    ELSE IF Len(parts) = 1 THEN parts[1]
    ELSE parts[1] \o sep \o Join(sep, Tail(parts))

RECURSIVE Gcd(_, _)
Gcd(a, b) == IF b = 0 THEN a ELSE Gcd(b, a % b)

\* The float total/n of a total held in hundredths, as a reduced fraction.
Quotient(total, n) ==
    LET g == Gcd(total, 100 * n)
    IN  [num |-> total \div g, den |-> (100 * n) \div g]

RECURSIVE count_sentiments(_, _)
count_sentiments(articles, label) ==
    IF articles = <<>> THEN 0
    ELSE (IF Get(articles[1], "Sentiment", "Neutral") = label THEN 1 ELSE 0)
         + count_sentiments(Tail(articles), label)

sentiment_distribution(articles) ==
    [label \in SentimentLabels |-> count_sentiments(articles, label)]

RECURSIVE total_sentiment_score(_)
total_sentiment_score(articles) ==
    IF articles = <<>> THEN 0
    ELSE Get(articles[1], "Sentiment_Score", 300)
         + total_sentiment_score(Tail(articles))

average_sentiment_score_unguarded(articles) ==
    IF articles # <<>>
    THEN Quotient(total_sentiment_score(articles), Len(articles))
    ELSE [num |-> 0, den |-> 1]

average_sentiment_score(articles) ==
    IF articles # <<>>
    THEN Quotient(total_sentiment_score(articles), Len(articles))
    ELSE [num |-> 3, den |-> 1]

RECURSIVE collect_topics(_)
collect_topics(articles) ==
    IF articles = <<>> THEN <<>>
    ELSE Get(articles[1], "Topics", <<>>) \o collect_topics(Tail(articles))

\* list(set(all_topics)): the distinct topics in an order the set's hashing
\* decides; every order is possible.
TopicOrders(all_topics) ==
    LET distinct == {all_topics[i] : i \in DOMAIN all_topics}
    IN  {order \in [1..Cardinality(distinct) -> distinct] :
            \A i, j \in DOMAIN order : i # j => order[i] # order[j]}

first_titles_truncated(articles, default) ==
    [i \in 1..(IF Len(articles) < 2 THEN Len(articles) ELSE 2) |->
        Take(Get(articles[i], "Title", default), 20)]

first_titles(articles, default) ==
    [i \in 1..(IF Len(articles) < 2 THEN Len(articles) ELSE 2) |->
        Get(articles[i], "Title", default)]

comparative_cache_key_whole_titles(company_name, articles) ==
    LET first == Take(articles, 3)
        titles == Join("_", [i \in DOMAIN first |-> Get(first[i], "Title", "")])
    IN  get_cache_key("comp_" \o company_name \o "_" \o titles)

comparative_cache_key(company_name, articles) ==
    LET first == Take(articles, 3)
        titles == Join("_", [i \in DOMAIN first |->
                                Take(Get(first[i], "Title", ""), 20)])
    IN  get_cache_key("comp_" \o company_name \o "_" \o titles)

fallback_difference(articles) ==
    [Comparison |-> "Differences in reporting emphasis",
     Articles_Involved |-> first_titles(articles, "Unknown"),
     Impact |-> "Creates varied impressions of company priorities"]

fill_comparative_trusting(parsed, articles, topic_order) ==
    [field \in DOMAIN parsed \cup
               {"Sentiment_Distribution", "Average_Sentiment_Score",
                "Coverage_Differences", "Sentiment_Drivers", "Topic_Analysis"} |->
        IF field = "Sentiment_Distribution" /\ field \notin DOMAIN parsed
        THEN sentiment_distribution(articles)
        ELSE IF field = "Average_Sentiment_Score" /\ field \notin DOMAIN parsed
        THEN average_sentiment_score(articles)
        ELSE IF field = "Coverage_Differences"
        THEN IF field \notin DOMAIN parsed \/ parsed[field] = <<>>
             THEN << fallback_difference(articles) >>
             ELSE parsed[field]
        ELSE IF field = "Sentiment_Drivers" /\ field \notin DOMAIN parsed
        THEN [Positive_Factors |-> <<>>, Negative_Factors |-> <<>>]
        ELSE IF field = "Topic_Analysis" /\ field \notin DOMAIN parsed
        THEN [Common_Topics |-> Take(topic_order, 5),
              Topic_Sentiment_Map |-> <<>>]
        ELSE parsed[field]]

fill_comparative(parsed, articles, topic_order) ==
    [field \in DOMAIN parsed \cup
               {"Sentiment_Distribution", "Average_Sentiment_Score",
                "Coverage_Differences", "Sentiment_Drivers", "Topic_Analysis"} |->
        IF field = "Sentiment_Distribution"
        THEN sentiment_distribution(articles)
        ELSE IF field = "Average_Sentiment_Score"
        THEN average_sentiment_score(articles)
        ELSE IF field = "Coverage_Differences"
        THEN IF field \notin DOMAIN parsed \/ parsed[field] = <<>>
             THEN << fallback_difference(articles) >>
             ELSE parsed[field]
        ELSE IF field = "Sentiment_Drivers" /\ field \notin DOMAIN parsed
        THEN [Positive_Factors |-> <<>>, Negative_Factors |-> <<>>]
        ELSE IF field = "Topic_Analysis" /\ field \notin DOMAIN parsed
        THEN [Common_Topics |-> Take(topic_order, 5),
              Topic_Sentiment_Map |-> <<>>]
        ELSE parsed[field]]

basic_result(articles, topic_order) ==
    [Sentiment_Distribution |-> sentiment_distribution(articles),
     Average_Sentiment_Score |-> average_sentiment_score(articles),
     Sentiment_Trend |-> "Unable to determine due to processing error",
     Coverage_Differences |->
        << [Comparison |-> "Analysis encountered an error",
            Articles_Involved |-> first_titles(articles, "Unknown"),
            Impact |-> "Complete comparative analysis not available"] >>,
     Sentiment_Drivers |-> [Positive_Factors |-> <<>>, Negative_Factors |-> <<>>],
     Topic_Analysis |-> [Common_Topics |-> Take(topic_order, 5),
                         Topic_Sentiment_Map |-> <<>>]]

generate_comparative_analysis_forgetful(store, company_name, articles, api, topic_order) ==
    LET cache_key == comparative_cache_key(company_name, articles)
        cached_result == check_cache(store, cache_key)
        parsed == json_loads(strip_fence(api.text))
        result == fill_comparative(parsed.value, articles, topic_order)
        basic == basic_result(articles, topic_order)
    IN  IF Truthy(cached_result)
        THEN [error |-> "", path |-> "hit", result |-> cached_result,
              store |-> store, calls |-> 0]
        ELSE IF api.raised
        THEN [error |-> "ApiError", path |-> "miss", result |-> None,
              store |-> store, calls |-> 1]
        ELSE IF parsed.error = "JSONDecodeError"
        THEN [error |-> "", path |-> "degraded", result |-> basic,
              store |-> store, calls |-> 1]
        ELSE IF ~parsed.is_dict
        THEN [error |-> "TypeError", path |-> "miss", result |-> None,
              store |-> store, calls |-> 1]
        ELSE [error |-> "", path |-> "miss", result |-> result,
              store |-> save_to_cache(store, cache_key, result), calls |-> 1]

\* topic_order is the order in which list(set(all_topics)) lists the topics.
generate_comparative_analysis(store, company_name, articles, api, topic_order) ==
    LET cache_key == comparative_cache_key(company_name, articles)
        cached_result == check_cache(store, cache_key)
        parsed == json_loads(strip_fence(api.text))
        result == fill_comparative(parsed.value, articles, topic_order)
        basic == basic_result(articles, topic_order)
    IN  IF Truthy(cached_result)
        THEN [error |-> "", path |-> "hit", result |-> cached_result,
              store |-> store, calls |-> 0]
        ELSE IF api.raised
        THEN [error |-> "ApiError", path |-> "miss", result |-> None,
              store |-> store, calls |-> 1]
        ELSE IF parsed.error = "JSONDecodeError"
        THEN [error |-> "", path |-> "degraded", result |-> basic,
              store |-> save_to_cache(store, cache_key, basic), calls |-> 1]
        ELSE IF ~parsed.is_dict
        THEN [error |-> "TypeError", path |-> "miss", result |-> None,
              store |-> store, calls |-> 1]
        ELSE [error |-> "", path |-> "miss", result |-> result,
              store |-> save_to_cache(store, cache_key, result), calls |-> 1]

(***************************************************************************)
(* _call_api_with_retry, one iteration of its loop at a time               *)
(***************************************************************************)
rate_limit_retries == 3

rate_limit_backoff == 2

RECURSIVE Pow2(_)
Pow2(n) == IF n = 0 THEN 1 ELSE 2 * Pow2(n - 1)

\* sub in s
Contains(s, sub) ==
    \E i \in 1..(Len(s) - Len(sub) + 1) : SubSeq(s, i, i + Len(sub) - 1) = sub

\* an attempt of generate_content: a response text, or an exception whose
\* str() is message (status is the HTTP status the service answered with)
Reply(text) == [ok |-> TRUE, text |-> text]

Failure(status, message) == [ok |-> FALSE, status |-> status, message |-> message]

should_retry_unbounded(message, retries) == Contains(message, "429")

should_retry(message, retries) ==
    Contains(message, "429") /\ retries < rate_limit_retries

wait_time_linear(retries) == rate_limit_backoff * (retries + 1)

wait_time(retries) == rate_limit_backoff * Pow2(retries)

Calling ==
    [pc |-> "loop", retries |-> 0, attempts |-> <<>>, sleeps |-> <<>>,
     text |-> "", raised |-> ""]

\* the body of the while loop under one outcome of generate_content, then
\* the loop test and the statement after the loop
attempt(c, outcome) ==
    LET tried == [c EXCEPT !.attempts = Append(@, outcome)] IN
    IF outcome.ok
    THEN [tried EXCEPT !.pc = "returned", !.text = outcome.text]
    ELSE IF should_retry(outcome.message, c.retries)
    THEN LET slept == [tried EXCEPT !.sleeps = Append(@, wait_time(c.retries)),
                                    !.retries = @ + 1] IN
         IF slept.retries <= rate_limit_retries
         THEN slept
         ELSE [slept EXCEPT !.pc = "raised",
                            !.raised = "Max retries reached for API call"]
    ELSE [tried EXCEPT !.pc = "raised", !.raised = outcome.message]

(***************************************************************************)
(* TextToSpeechService.translate_to_hindi over data/cache/translations:    *)
(* utils/text_to_speech.py (the module api.py imports, Gemini only) and    *)
(* utils/.ipynb_checkpoints/text_to_speech-checkpoint.py (chunked, with    *)
(* configure_gemini_service called: translator_type = "gemini")            *)
(***************************************************************************)
\* an Optional[str]: None is <<>>, the string s is <<s>>
Some(s) == <<s>>

TruthyStr(opt) == opt # None /\ opt[1] # ""

Whitespace == {" ", "\n", "\t"}

RECURSIVE lstrip(_)
lstrip(s) ==
    IF Len(s) > 0 /\ SubSeq(s, 1, 1) \in Whitespace
    THEN lstrip(SubSeq(s, 2, Len(s))) ELSE s

RECURSIVE rstrip(_)
rstrip(s) ==
    IF Len(s) > 0 /\ SubSeq(s, Len(s), Len(s)) \in Whitespace
    THEN rstrip(SubSeq(s, 1, Len(s) - 1)) ELSE s

strip(s) == rstrip(lstrip(s))

translation_cache_key(text) == get_cache_key(Take(text, 1000))

check_translation_cache(store, cache_key) ==
    IF cache_key \in DOMAIN store /\ Readable(store[cache_key])
    THEN LET data == json_load(store[cache_key])
         IN  IF "translation" \in DOMAIN data THEN Some(data.translation) ELSE None
    ELSE None

save_translation_to_cache(store, cache_key, translation) ==
    save_to_cache(store, cache_key, [translation |-> translation])

translation_prompt(text) ==
    "Translate the following English text to Hindi. Return ONLY the Hindi translation, no additional comments:\n\n"
    \o text

TranslationFailed ==
    "Translation failed. Please check the Gemini API key and configuration."

\* utils/text_to_speech.py. api is the outcome of _call_api_with_retry.
\* The value is [error, path, result, store, sent, fallbacks, slept]: sent
\* lists the prompts given to _call_api_with_retry, fallbacks the indexes of
\* the chunks given to the MyMemory translator, slept the seconds of pacing.
translate_to_hindi(store, text, api) ==
    LET cache_key == translation_cache_key(text)
        cached_translation == check_translation_cache(store, cache_key)
    IN  IF TruthyStr(cached_translation)
        THEN [error |-> "", path |-> "hit", result |-> cached_translation[1],
              store |-> store, sent |-> <<>>, fallbacks |-> <<>>, slept |-> 0]
        ELSE IF ~api.ok
        THEN [error |-> TranslationFailed, path |-> "miss", result |-> "",
              store |-> store, sent |-> <<translation_prompt(text)>>,
              fallbacks |-> <<>>, slept |-> 0]
        ELSE [error |-> "", path |-> "miss", result |-> strip(api.text),
              store |-> save_translation_to_cache(store, cache_key, strip(api.text)),
              sent |-> <<translation_prompt(text)>>, fallbacks |-> <<>>, slept |-> 0]

max_chunk_size == 4000

\* [text[i:i+size] for i in range(0, len(text), size)]
RECURSIVE Chunks(_, _)
Chunks(text, size) ==
    IF Len(text) = 0 THEN <<>>
    ELSE <<Take(text, size)>> \o Chunks(SubSeq(text, size + 1, Len(text)), size)

split_for_translation(text) ==
    IF Len(text) > max_chunk_size THEN Chunks(text, max_chunk_size) ELSE <<text>>

\* translator.translate(text) of MyMemory answered or raised
fallback_translate(text, outcome) == IF outcome.ok THEN outcome.text ELSE text

gemini_translate(text, outcome) == strip(outcome.text)

\* outcome is [primary, fallback]: what _call_api_with_retry and, when it
\* is reached, the MyMemory translator do for this chunk
translate_chunk(text, outcome) ==
    IF outcome.primary.ok THEN gemini_translate(text, outcome.primary)
    ELSE fallback_translate(text, outcome.fallback)

\* utils/.ipynb_checkpoints/text_to_speech-checkpoint.py; outcomes[i] is
\* the outcome of the i-th chunk.
translate_to_hindi_chunked(store, text, outcomes) ==
    LET cache_key == translation_cache_key(text)
        cached_translation == check_translation_cache(store, cache_key)
        chunks == split_for_translation(text)
        translated == [i \in 1..Len(chunks) |-> translate_chunk(chunks[i], outcomes[i])]
        full_translation == Join("", translated)
        failed == {i \in 1..Len(chunks) : ~outcomes[i].primary.ok}
    IN  IF TruthyStr(cached_translation)
        THEN [error |-> "", path |-> "hit", result |-> cached_translation[1],
              store |-> store, sent |-> <<>>, fallbacks |-> <<>>, slept |-> 0]
        ELSE [error |-> "", path |-> "miss", result |-> full_translation,
              store |-> save_translation_to_cache(store, cache_key, full_translation),
              sent |-> [i \in 1..Len(chunks) |-> translation_prompt(chunks[i])],
              fallbacks |-> SelectSeq([i \in 1..Len(chunks) |-> i], LAMBDA i : i \in failed),
              slept |-> IF Len(text) > max_chunk_size THEN Len(chunks) ELSE 0]

(***************************************************************************)
(* GeminiService.generate_final_sentiment                                  *)
(***************************************************************************)
final_cache_key(company_name) == get_cache_key("final_" \o company_name)

final_hit_nonempty(cached_result) ==
    /\ Truthy(cached_result)
    /\ "sentiment" \in DOMAIN cached_result
    /\ cached_result["sentiment"] # ""

final_hit(cached_result) ==
    Truthy(cached_result) /\ "sentiment" \in DOMAIN cached_result

\* a score held as the fraction [num, den], in hundredths as "{:.2f}" shows it
format_2f(avg_score) ==
    (200 * avg_score.num + avg_score.den) \div (2 * avg_score.den)

\* the values the f-string of the prompt interpolates
final_prompt(company_name, analysis_result) ==
    LET comparative == Get(analysis_result, "Comparative_Sentiment_Score", None)
        sentiment_drivers == Get(comparative, "Sentiment_Drivers", None)
    IN  [company |-> company_name,
         positive_factors |-> Join(", ", Get(sentiment_drivers, "Positive_Factors", <<>>)),
         negative_factors |-> Join(", ", Get(sentiment_drivers, "Negative_Factors", <<>>)),
         overall_trend |-> format_2f(Get(comparative, "Average_Sentiment_Score",
                                         [num |-> 3, den |-> 1]))]

\* api is the outcome of _call_api_with_retry, a Reply or a Failure.
\* The value is [error, path, result, store, calls, prompt].
generate_final_sentiment(store, company_name, analysis_result, api) ==
    LET cache_key == final_cache_key(company_name)
        cached_result == check_cache(store, cache_key)
        prompt == final_prompt(company_name, analysis_result)
    IN  IF final_hit(cached_result)
        THEN [error |-> "", path |-> "hit", result |-> cached_result["sentiment"],
              store |-> store, calls |-> 0, prompt |-> None]
        ELSE IF ~api.ok
        THEN [error |-> "ApiError", path |-> "miss", result |-> "",
              store |-> store, calls |-> 1, prompt |-> prompt]
        ELSE [error |-> "", path |-> "miss", result |-> strip(api.text),
              store |-> save_to_cache(store, cache_key, [sentiment |-> strip(api.text)]),
              calls |-> 1, prompt |-> prompt]

(***************************************************************************)
(* GeminiService.generate_query_response                                   *)
(***************************************************************************)
query_cache_key(company_name, query) ==
    get_cache_key("query_" \o company_name \o "_" \o query)

query_hit(cached_result) ==
    Truthy(cached_result) /\ "response" \in DOMAIN cached_result

\* the entry written on a miss: the reply as the model sent it
query_entry(response) == [response |-> response]

\* api is the outcome of _call_api_with_retry, a Reply or a Failure
\* (company_data is not read).  The value is [error, path, result, store, calls].
generate_query_response(store, company_name, query, api) ==
    LET cache_key == query_cache_key(company_name, query)
        cached_result == check_cache(store, cache_key)
    IN  IF query_hit(cached_result)
        THEN [error |-> "", path |-> "hit", result |-> cached_result["response"],
              store |-> store, calls |-> 0]
        ELSE IF ~api.ok
        THEN [error |-> "ApiError", path |-> "miss", result |-> "",
              store |-> store, calls |-> 1]
        ELSE [error |-> "", path |-> "miss", result |-> strip(api.text),
              store |-> save_to_cache(store, cache_key, query_entry(api.text)),
              calls |-> 1]

(***************************************************************************)
(* BatchProcessor.process_company (.ipynb_checkpoints/cron-checkpoint.py), *)
(* one external call at a time                                             *)
(***************************************************************************)
has_title(article) ==
    "title" \in DOMAIN article /\ article["title"] # "" /\ article["title"] # "No Title"

\* the three-label rule of the batch driver, on a score in hundredths
batch_label(sentiment_score) ==
    IF sentiment_score >= 370 THEN "Positive"
    ELSE IF sentiment_score <= 270 THEN "Negative"
    ELSE "Neutral"

content_preview(content) ==
    IF Len(content) > 200 THEN Take(content, 200) \o "..." ELSE content

\* the record appended to analysis_result["Articles"]
batch_article(article_analysis, title, content) ==
    [k \in DOMAIN article_analysis
            \cup {"Sentiment", "Title", "Content_Length", "Content_Preview"} |->
        IF k = "Sentiment" THEN batch_label(article_analysis["Sentiment_Score"])
        ELSE IF k = "Title" THEN title
        ELSE IF k = "Content_Length" THEN Len(content)
        ELSE IF k = "Content_Preview" THEN content_preview(content)
        ELSE article_analysis[k]]

valid_analysis(article_analysis) ==
    Truthy(article_analysis) /\ "Sentiment_Score" \in DOMAIN article_analysis

Idle ==
    [pc |-> "idle", company |-> "", articles |-> <<>>, i |-> 1,
     analysis_result |-> None, successful_analyses |-> 0,
     compared |-> <<>>, error |-> "", returned |-> None, prompt |-> None,
     stages |-> <<>>]

analyzed_two_suffice(b, r) ==
    LET article == b.articles[b.i]
        kept == r.error = "" /\ valid_analysis(r.result)
        appended == IF kept
                    THEN Append(b.analysis_result.Articles,
                                batch_article(r.result, article["title"], article.content))
                    ELSE b.analysis_result.Articles
        successful == b.successful_analyses + (IF kept THEN 1 ELSE 0)
        result == [b.analysis_result EXCEPT !.Articles = appended]
        more == b.i < Len(b.articles)
    IN  [b EXCEPT !.i = @ + 1,
                  !.analysis_result = result,
                  !.successful_analyses = successful,
                  !.pc = IF more THEN "analyze"
                         ELSE IF successful >= 2 THEN "compare" ELSE "done",
                  !.returned = IF more \/ successful >= 2 THEN None ELSE result]

\* lines 107-136 for the article at b.i, answered by r, a value of
\* analyze_article; then the end of the loop and the test of line 139
analyzed(b, r) ==
    LET article == b.articles[b.i]
        kept == r.error = "" /\ valid_analysis(r.result)
        appended == IF kept
                    THEN Append(b.analysis_result.Articles,
                                batch_article(r.result, article["title"], article.content))
                    ELSE b.analysis_result.Articles
        successful == b.successful_analyses + (IF kept THEN 1 ELSE 0)
        result == [b.analysis_result EXCEPT !.Articles = appended]
        more == b.i < Len(b.articles)
    IN  [b EXCEPT !.i = @ + 1,
                  !.analysis_result = result,
                  !.successful_analyses = successful,
                  !.pc = IF more THEN "analyze"
                         ELSE IF successful >= 3 THEN "compare" ELSE "done",
                  !.returned = IF more \/ successful >= 3 THEN None ELSE result]

\* the except clause of line 161: the run ends and returns None
failed(b, error) == [b EXCEPT !.pc = "done", !.error = error, !.returned = None]

(***************************************************************************)
(* api.analyze_company, the handler of POST /analyze                       *)
(***************************************************************************)
\* lines 120-125 from article i on: outcomes[i] answers the i-th call of
\* analyze_article; a call that raises ends the request
RECURSIVE analyze_articles(_, _, _, _, _)
analyze_articles(store, articles, outcomes, i, analysed) ==
    IF i > Len(articles) THEN [error |-> "", store |-> store, Articles |-> analysed]
    ELSE LET r == analyze_article(store, Get(articles[i], "title", "No Title"),
                                  Get(articles[i], "content", ""), outcomes[i])
         IN  IF r.error # ""
             THEN [error |-> r.error, store |-> r.store, Articles |-> analysed]
             ELSE analyze_articles(r.store, articles, outcomes, i + 1,
                      IF Truthy(r.result) THEN Append(analysed, r.result) ELSE analysed)

\* company_name.lower().replace(" ", "_")
RECURSIVE slug(_)
slug(name) ==
    IF name = "" THEN ""
    ELSE LET c == SubSeq(name, 1, 1)
             upper == "ABCDEFGHIJKLMNOPQRSTUVWXYZ"
             lower == "abcdefghijklmnopqrstuvwxyz"
             at == {i \in 1..26 : SubSeq(upper, i, i) = c}
         IN  (IF c = " " THEN "_"
              ELSE IF at # {} THEN LET i == CHOOSE i \in at : TRUE IN SubSeq(lower, i, i)
              ELSE c) \o slug(SubSeq(name, 2, Len(name)))

\* topic_order is the order list(set(all_topics)) gives the topics of the
\* analysed articles. The value is [status, error, result, store, tstore,
\* comparative, prompt, saved]: the HTTP status, the failure behind a 500, the body returned, the
\* two cache directories afterwards, the value of
\* generate_comparative_analysis, the prompt generate_final_sentiment built
\* (None if it built none) and the name of the .pkl file written.
analyze_company(store, tstore, company_name, articles, outcomes, comp_api, topic_order, final_api, tts_api) ==
    LET quit(error, st) ==
            [status |-> 500, error |-> error, result |-> None, store |-> st,
             tstore |-> tstore, comparative |-> None, prompt |-> None, saved |-> ""]
        analysed == analyze_articles(store, articles, outcomes, 1, <<>>)
        analysis_result == [Company |-> company_name, Articles |-> analysed.Articles]
        comp == generate_comparative_analysis(analysed.store, company_name,
                    analysed.Articles, comp_api, topic_order)
        final == generate_final_sentiment(comp.store, company_name, analysis_result, final_api)
        body == Put(Put(analysis_result, "Comparative Sentiment Score", comp.result),
                    "Final Sentiment Analysis", final.result)
    IN  IF articles = <<>> THEN quit("No articles found.", store)
        ELSE IF analysed.error # "" THEN quit(analysed.error, analysed.store)
        ELSE IF analysed.Articles = <<>> THEN quit("Failed to analyze articles.", analysed.store)
        ELSE IF comp.error # "" THEN quit(comp.error, comp.store)
        ELSE IF final.error # ""
        THEN [quit(final.error, final.store) EXCEPT !.comparative = comp.result,
                                                    !.prompt = final.prompt]
        ELSE [status |-> 200, error |-> "", result |-> body, store |-> final.store,
              tstore |-> IF final.result = "" THEN tstore
                         ELSE translate_to_hindi(tstore, final.result, tts_api).store,
              comparative |-> comp.result, prompt |-> final.prompt,
              saved |-> slug(company_name) \o ".pkl"]

(***************************************************************************)
(* BatchProcessor.process_all_companies, one company at a time             *)
(***************************************************************************)
NotRunning ==
    [pc |-> "idle", companies |-> <<>>, i |-> 1,
     results |-> [total |-> 0, success |-> 0, failed |-> 0],
     processed |-> <<>>, saved |-> <<>>, slept |-> 0]

\* save_result: False for a value that is not truthy and when the dump
\* raises (pickled is whether open and pickle.dump return)
save_result(company_name, analysis_result, pickled) ==
    Truthy(analysis_result) /\ pickled

\* lines 237-253 for the company at r.i: process is what process_company
\* does, [raised, returned]
process_next_miscounting(r, process, pickled) ==
    LET company == r.companies[r.i]
        ok == ~process.raised /\ save_result(company, process.returned, pickled)
    IN  [r EXCEPT !.i = @ + 1,
                  !.results = IF ok THEN [@ EXCEPT !.success = @ + 1] ELSE @,
                  !.processed = Append(@, [company |-> company, ok |-> ok]),
                  !.saved = IF ok THEN Append(@, slug(company) \o ".pkl") ELSE @,
                  !.slept = IF process.raised THEN @ ELSE @ + 2,
                  !.pc = IF r.i < Len(r.companies) THEN "loop" ELSE "done"]

process_next(r, process, pickled) ==
    LET company == r.companies[r.i]
        ok == ~process.raised /\ save_result(company, process.returned, pickled)
    IN  [r EXCEPT !.i = @ + 1,
                  !.results = IF ok THEN [@ EXCEPT !.success = @ + 1]
                              ELSE [@ EXCEPT !.failed = @ + 1],
                  !.processed = Append(@, [company |-> company, ok |-> ok]),
                  !.saved = IF ok THEN Append(@, slug(company) \o ".pkl") ELSE @,
                  !.slept = IF process.raised THEN @ ELSE @ + 2,
                  !.pc = IF r.i < Len(r.companies) THEN "loop" ELSE "done"]

(***************************************************************************)
(* Inputs: articles given to analyze_article and texts the model returns   *)
(***************************************************************************)
Text(fence, json, obj, numeric) ==
    [fence |-> fence, json |-> json, obj |-> obj, numeric |-> numeric]

ApiText(text) == [raised |-> FALSE, text |-> text]

ApiFailure == [raised |-> TRUE, text |-> Text("none", "invalid", None, FALSE)]

LongContent == Rep("0123456789", 100) \o " and the rest of the story"

Sources ==
    { [title |-> "Acme Q3 profit", content |-> LongContent],
      [title |-> "comp", content |-> "Acme_Acme Q3 profit"] }

ReplyScores == {150, 151, 250, 251, 350, 351, 450, 451, 600}

\* the label the model's text carries next to the score
ModelLabel(score) ==
    IF score \in 251..350 THEN "Very Negative"
    ELSE IF score = 451 THEN "Very Positive"
    ELSE IF score = 150 THEN "Mixed"
    ELSE "Neutral"

ArticleObj(score) ==
    [Title |-> "Acme Q3 profit (model)", Summary |-> "Acme reported results.",
     Sentiment |-> ModelLabel(score), Sentiment_Score |-> score,
     Topics |-> <<"earnings">>, Sentiment_Indicators |-> <<"record profit">>]

AnalyzeReplies ==
    { Text("none", "object", ArticleObj(s), TRUE) : s \in ReplyScores }
    \cup
    { Text("json", "object", ArticleObj(100), TRUE),
      Text("plain", "object", ArticleObj(500), TRUE),
      Text("none", "object", None, TRUE),
      Text("none", "object", [Title |-> "", Sentiment |-> "Positive"], TRUE),
      Text("none", "object", [Summary |-> "Acme reported results.",
                              Sentiment_Score |-> 420, Source |-> "wire"], TRUE),
      Text("none", "object", ArticleObj(400), FALSE),
      Text("none", "array", None, FALSE),
      Text("json", "invalid", None, FALSE),
      Text("none", "invalid", None, FALSE) }

Analysed(title, sentiment, score, topics) ==
    [Title |-> title, Summary |-> "Summary of the article.",
     Sentiment |-> sentiment, Sentiment_Score |-> score, Topics |-> topics,
     Sentiment_Indicators |-> <<"indicator">>]

A1 == Analysed("Acme Q3 profit", "Very Negative", 100, <<"earnings">>)

A2 == Analysed("Acme recalls product line A", "Very Positive", 500, <<"earnings">>)

A3 == Analysed("Acme recalls product line B", "Neutral", 300, <<"earnings">>)

A4 == Analysed("Acme hires a new CFO", "Positive", 451, <<"recall">>)

\* a record without Sentiment, Sentiment_Score and Topics
A5 == [Title |-> "Acme opens a plant", Summary |-> "Summary of the article."]

Feeds == { <<A1, A2, A3, A4, A5>>, <<A1, A3, A2, A5, A4>> }

ArticleLists ==
    { Take(feed, n) : feed \in Feeds, n \in 0..MaxArticles }

CompareRequests ==
    { [company_name |-> "Acme", articles |-> articles] : articles \in ArticleLists }
    \cup { [company_name |-> "Globex", articles |-> <<A1, A2, A3>>] }

Difference(comparison, involved) ==
    [Comparison |-> comparison, Articles_Involved |-> involved,
     Impact |-> "Impact on overall perception"]

ModelDistribution == [label \in SentimentLabels |-> 9]

FullComparison ==
    [Sentiment_Distribution |-> ModelDistribution,
     Average_Sentiment_Score |-> [num |-> 1, den |-> 1],
     Sentiment_Trend |-> "Mostly positive coverage",
     Coverage_Differences |->
        << Difference("Tone differs", <<"Article title 1", "Article title 2">>),
           Difference("Emphasis differs", <<"Article title 1", "Article title 3">>) >>,
     Sentiment_Drivers |-> [Positive_Factors |-> <<"growth">>,
                            Negative_Factors |-> <<"recall">>],
     Topic_Analysis |-> [Common_Topics |-> <<"earnings">>,
                         Topic_Sentiment_Map |-> [earnings |-> "Mixed"]]]

CompareReplies ==
    { Text("json", "object", FullComparison, TRUE),
      Text("none", "object", None, TRUE),
      Text("none", "object",
           [Sentiment_Distribution |-> ModelDistribution,
            Sentiment_Trend |-> "Mixed coverage",
            Coverage_Differences |-> <<>>], TRUE),
      Text("plain", "object",
           [Average_Sentiment_Score |-> [num |-> 5, den |-> 1],
            Sentiment_Trend |-> "Mixed coverage"], TRUE),
      Text("none", "array", None, FALSE),
      Text("none", "invalid", None, FALSE) }

(***************************************************************************)
(* State machine                                                           *)
(***************************************************************************)
\* what the store holds for a key when an operation starts
FileState(store, cache_key) ==
    IF cache_key \notin DOMAIN store THEN "absent"
    ELSE IF store[cache_key] = Garbled THEN "garbled"
    ELSE IF store[cache_key] = Locked THEN "locked"
    ELSE "json"

\* the keys an operation wrote
Written(before, after) ==
    {k \in DOMAIN after : k \notin DOMAIN before \/ after[k] # before[k]}

\* two threads call analyze_article(title, content) with the same arguments
Threads == {1, 2}

RaceSource == [title |-> "Acme Q3 profit", content |-> "Acme reported results."]

RaceKey == get_cache_key(RaceSource.title \o "_" \o Take(RaceSource.content, 1000))

RaceReplies ==
    { Text("none", "object", ArticleObj(450), TRUE),
      Text("none", "object", ArticleObj(150), TRUE),
      Text("none", "object", [Summary |-> "Acme reported results."], TRUE) }

Racing ==
    [pc |-> [t \in Threads |-> "check"], result |-> [t \in Threads |-> None],
     returned |-> [t \in Threads |-> None], writes |-> <<>>]

\* the characters json.dump writes for a record of analyze_article, counted
\* over the fields in which the records of RaceReplies differ
dumped_length(data) == Len(data["Title"]) + Len(data["Sentiment"])

\* f.write at offset 0 of a file that another descriptor has written since
\* this one truncated it: the longer old content keeps its tail
overwrite(file, data) ==
    IF Readable(file) /\ dumped_length(json_load(file)) > dumped_length(data)
    THEN Garbled
    ELSE json_dump(data)

NoCall ==
    [op |-> "none", input |-> None, api |-> ApiFailure, error |-> "",
     path |-> "", result |-> None, calls |-> 0]

Init ==
    /\ cache = <<>>
    /\ last = NoCall
    /\ answered = <<>>
    /\ nOps = 0
    /\ translations = <<>>
    /\ caller = Calling
    /\ batch = Idle
    /\ run = NotRunning
    /\ race = Racing

AnalyzeArticleFrom(sources, replies) ==
    /\ nOps < MaxOps
    /\ \E src \in sources, api \in {ApiFailure} \cup {ApiText(t) : t \in replies} :
         \E r \in {analyze_article(cache, src.title, src.content, api)} :
             /\ cache' = r.store
             /\ last' = [op |-> "analyze_article", input |-> src, api |-> api,
                         error |-> r.error, path |-> r.path,
                         result |-> r.result, calls |-> r.calls,
                         entry |-> FileState(cache, get_cache_key(
                                      src.title \o "_" \o Take(src.content, 1000)))]
             /\ answered' = IF r.error = "" /\ src \notin DOMAIN answered
                            THEN Put(answered, src,
                                     [result |-> r.result, path |-> r.path,
                                      calls |-> r.calls, at |-> nOps + 1])
                            ELSE answered
             /\ nOps' = nOps + 1
             /\ UNCHANGED <<translations, caller, batch, run, race>>

AnalyzeArticle == AnalyzeArticleFrom(Sources, AnalyzeReplies)

GenerateComparativeAnalysisFrom(requests, replies) ==
    /\ nOps < MaxOps
    /\ \E req \in requests,
          api \in {ApiFailure} \cup {ApiText(t) : t \in replies} :
       \E topic_order \in TopicOrders(collect_topics(req.articles)) :
         \E r \in {generate_comparative_analysis(cache, req.company_name,
                                                  req.articles, api, topic_order)} :
             /\ cache' = r.store
             /\ last' = [op |-> "generate_comparative_analysis",
                         input |-> req,
                         api |-> api, error |-> r.error, path |-> r.path,
                         result |-> r.result, calls |-> r.calls]
             /\ UNCHANGED <<answered, translations, caller, batch, run, race>>
             /\ nOps' = nOps + 1

GenerateComparativeAnalysis ==
    GenerateComparativeAnalysisFrom(CompareRequests, CompareReplies)

Next == AnalyzeArticle \/ GenerateComparativeAnalysis

Spec == Init /\ [][Next]_vars

\* the aggregator alone, over its own cache entries
SpecCompare == Init /\ [][GenerateComparativeAnalysis]_vars

AttemptOutcomes ==
    { Reply("  Strong quarter for Acme.\n"), Reply("Acme faces a recall."),
      Failure(429, "429 Resource has been exhausted (e.g. check quota)."),
      Failure(429, "Quota exceeded for quota metric (429)"),
      Failure(429, "429 Too Many Requests"),
      Failure(500, "500 An internal error has occurred."),
      Failure(400, "400 API key not valid.") }

\* 400 times the ten characters of s
Block(s) == Rep(Rep(Rep(s, 10), 10), 4)

ShortText == "Acme reported a strong quarter."

FullChunk == Block("0123456789")

TwoChunks == Block("0123456789") \o Block("abcdefghij")

TwoChunksAlike == Block("0123456789") \o Block("klmnopqrst")

ChunkAndOne == FullChunk \o "!"

TwoChunksOther == Block("abcdefghij") \o Block("0123456789")

Texts == {ShortText, FullChunk, TwoChunks, TwoChunksAlike, ChunkAndOne, TwoChunksOther}

TranslationOutcomes ==
    { Reply("  Hindi text A.\n"), Reply("Hindi text B."), Reply(" \n"),
      Failure(429, "429 Too Many Requests"),
      Failure(500, "500 An internal error has occurred.") }

Unused == Failure(0, "not called")

ChunkOutcomes ==
    { [primary |-> o, fallback |-> Unused] : o \in {t \in TranslationOutcomes : t.ok} }
    \cup
    { [primary |-> Failure(500, "500 An internal error has occurred."), fallback |-> f] :
        f \in {Reply("MyMemory text C."), Failure(429, "MYMEMORY WARNING: quota used up")} }

\* utils/text_to_speech.py
TranslateToHindi ==
    /\ nOps < MaxOps
    /\ \E text \in Texts, api \in TranslationOutcomes :
         \E r \in {translate_to_hindi(translations, text, api)} :
             /\ translations' = r.store
             /\ last' = [op |-> "translate_to_hindi", input |-> text,
                         answers |-> IF r.path = "hit" THEN <<>> ELSE <<api>>,
                         error |-> r.error, path |-> r.path, result |-> r.result,
                         sent |-> r.sent, fallbacks |-> r.fallbacks, slept |-> r.slept,
                         entry |-> FileState(translations, translation_cache_key(text)),
                         written |-> Written(translations, r.store)]
             /\ nOps' = nOps + 1
             /\ UNCHANGED <<cache, answered, caller, batch, run, race>>

\* utils/.ipynb_checkpoints/text_to_speech-checkpoint.py
TranslateToHindiChunked ==
    /\ nOps < MaxOps
    /\ \E text \in Texts :
       \E outcomes \in [1..Len(split_for_translation(text)) -> ChunkOutcomes] :
         \E r \in {translate_to_hindi_chunked(translations, text, outcomes)} :
             /\ translations' = r.store
             /\ last' = [op |-> "translate_to_hindi", input |-> text,
                         answers |-> IF r.path = "hit" THEN <<>>
                                     ELSE [i \in DOMAIN outcomes |-> outcomes[i].primary],
                         error |-> r.error, path |-> r.path, result |-> r.result,
                         sent |-> r.sent, fallbacks |-> r.fallbacks, slept |-> r.slept,
                         entry |-> FileState(translations, translation_cache_key(text)),
                         written |-> Written(translations, r.store)]
             /\ nOps' = nOps + 1
             /\ UNCHANGED <<cache, answered, caller, batch, run, race>>

\* a file of either cache directory is damaged or made inaccessible
StoreFault ==
    /\ nOps < MaxOps
    /\ \E file \in {Garbled, Locked} :
         \/ /\ \E src \in Sources :
                  cache' = Put(cache, get_cache_key(
                                  src.title \o "_" \o Take(src.content, 1000)), file)
            /\ UNCHANGED translations
         \/ /\ \E text \in Texts :
                  translations' = Put(translations, translation_cache_key(text), file)
            /\ UNCHANGED cache
    /\ last' = [NoCall EXCEPT !.op = "store_fault"]
    /\ nOps' = nOps + 1
    /\ UNCHANGED <<answered, caller, batch, run, race>>

SpecTranslate == Init /\ [][TranslateToHindi]_vars

SpecTranslateChunked == Init /\ [][TranslateToHindiChunked]_vars

SpecStore == Init /\ [][AnalyzeArticle \/ TranslateToHindi \/ StoreFault]_vars

\* the aggregate record the drivers build: cron.py stores the comparison
\* under "Comparative_Sentiment_Score" before the call, api.py calls with
\* Company and Articles only
AnalysisResult(company_name, articles, comparison) ==
    [Company |-> company_name, Articles |-> articles,
     Comparative_Sentiment_Score |-> comparison]

AnalysisResults ==
    { AnalysisResult("Acme", <<A1, A2, A3>>, FullComparison),
      AnalysisResult("Acme", <<A4, A2>>,
          [FullComparison EXCEPT !.Average_Sentiment_Score = [num |-> 951, den |-> 200],
                                 !.Sentiment_Drivers = [Positive_Factors |-> <<"new CFO", "growth">>,
                                                        Negative_Factors |-> <<>>]]),
      AnalysisResult("Globex", <<A1>>, [Sentiment_Trend |-> "Negative coverage"]),
      [Company |-> "Acme", Articles |-> <<A1, A2, A3>>],
      [Company |-> "Globex", Articles |-> <<A3>>] }

FinalOutcomes ==
    { Reply("  Coverage of the company is cautiously optimistic.\n"),
      Reply("Coverage is dominated by the recall."),
      Reply(" \n"),
      Failure(429, "429 Too Many Requests") }

GenerateFinalSentimentFrom(results, outcomes) ==
    /\ nOps < MaxOps
    /\ \E analysis_result \in results, api \in outcomes :
         \E r \in {generate_final_sentiment(cache, analysis_result.Company,
                                            analysis_result, api)} :
             /\ cache' = r.store
             /\ last' = [op |-> "generate_final_sentiment", input |-> analysis_result,
                         api |-> api, error |-> r.error, path |-> r.path,
                         result |-> r.result, calls |-> r.calls, prompt |-> r.prompt]
             /\ answered' = IF r.error = "" /\ r.path = "miss"
                            THEN Put(answered, [company |-> analysis_result.Company],
                                     [result |-> r.result, analysis_result |-> analysis_result])
                            ELSE answered
             /\ nOps' = nOps + 1
             /\ UNCHANGED <<translations, caller, batch, run, race>>

GenerateFinalSentiment == GenerateFinalSentimentFrom(AnalysisResults, FinalOutcomes)

SpecFinal == Init /\ [][GenerateFinalSentiment]_vars

Queries ==
    { [company_name |-> "Acme", query |-> "What is the trend?"],
      [company_name |-> "Acme", query |-> "Why is coverage negative?"],
      [company_name |-> "Globex", query |-> "What is the trend?"] }

QueryOutcomes ==
    { Reply("Coverage of Acme is mostly positive."),
      Reply("  Coverage of Acme is mostly positive.\n"),
      Reply("The recall drives the negative coverage. "),
      Failure(500, "500 An internal error has occurred.") }

GenerateQueryResponseFrom(queries, outcomes) ==
    /\ nOps < MaxOps
    /\ \E q \in queries, api \in outcomes :
         \E r \in {generate_query_response(cache, q.company_name, q.query, api)} :
             /\ cache' = r.store
             /\ last' = [op |-> "generate_query_response", input |-> q,
                         api |-> api, error |-> r.error, path |-> r.path,
                         result |-> r.result, calls |-> r.calls]
             /\ nOps' = nOps + 1
             /\ UNCHANGED <<answered, translations, caller, batch, run, race>>

GenerateQueryResponse == GenerateQueryResponseFrom(Queries, QueryOutcomes)

SpecQuery == Init /\ [][GenerateQueryResponse]_vars

\* the four operations of one GeminiService over the one store; the titles
\* "final", "query" and "comp" are article titles as any other
ServiceSources ==
    { [title |-> "Acme Q3 profit", content |-> "Acme reported results."],
      [title |-> "final", content |-> "Acme"],
      [title |-> "query", content |-> "Acme_What is the trend?"],
      [title |-> "comp", content |-> "Acme_Acme Q3 profit"] }

ServiceReplies ==
    { Text("none", "object", ArticleObj(450), TRUE),
      Text("none", "object", ArticleObj(150), TRUE) }

ServiceRequests == { [company_name |-> "Acme", articles |-> <<A1>>] }

ServiceComparisons == { Text("json", "object", FullComparison, TRUE) }

ServiceResults == { [Company |-> "Acme", Articles |-> <<A1, A2, A3>>] }

ServiceFinalOutcomes ==
    { Reply("Coverage is dominated by the recall."),
      Failure(429, "429 Too Many Requests") }

ServiceQueries == { [company_name |-> "Acme", query |-> "What is the trend?"] }

ServiceQueryOutcomes ==
    { Reply("Coverage of Acme is mostly positive."),
      Failure(500, "500 An internal error has occurred.") }

ServiceAnalyze == AnalyzeArticleFrom(ServiceSources, ServiceReplies)

ServiceCompare == GenerateComparativeAnalysisFrom(ServiceRequests, ServiceComparisons)

ServiceFinal == GenerateFinalSentimentFrom(ServiceResults, ServiceFinalOutcomes)

ServiceQuery == GenerateQueryResponseFrom(ServiceQueries, ServiceQueryOutcomes)

SpecService ==
    Init /\ [][ServiceAnalyze \/ ServiceCompare \/ ServiceFinal \/ ServiceQuery]_vars

Scraped(title, content) == [title |-> title, content |-> content, url |-> "https://news.example/a"]

ScrapedFeed ==
    << Scraped("Acme Q3 profit", LongContent),
       Scraped("Acme recalls product line A", "Acme recalls a product line."),
       Scraped("Acme hires a new CFO", "Acme names a new finance chief."),
       Scraped("Acme Q3 profit", LongContent),
       Scraped("Acme opens a plant", "Acme opens a plant.") >>

ScrapedLists ==
    { Take(ScrapedFeed, n) : n \in 0..MaxArticles }
    \cup { << ScrapedFeed[1], Scraped("No Title", "Acme in the news. More text.") >> }

BatchAnalyzeOutcomes ==
    { ApiFailure, ApiText(Text("none", "array", None, FALSE)) }
    \cup { ApiText(Text("none", "object", ArticleObj(s), TRUE)) : s \in {100, 260, 400} }

BatchCompareOutcomes ==
    { ApiFailure, ApiText(Text("json", "object", FullComparison, TRUE)),
      ApiText(Text("none", "invalid", None, FALSE)) }

BatchFinalOutcomes ==
    { Reply("Coverage is dominated by the recall."), Reply(" \n"),
      Failure(429, "429 Too Many Requests") }

BatchTtsOutcomes ==
    { Reply("  Hindi text A.\n"), Failure(500, "500 An internal error has occurred.") }

\* lines 80-92: the scraper raises, finds nothing, or returns articles
BatchStart ==
    /\ batch.pc = "idle"
    /\ \/ batch' = failed(batch, "ScraperError")
       \/ \E articles \in ScrapedLists :
            batch' = IF articles = <<>>
                     THEN [batch EXCEPT !.pc = "done", !.company = "Acme"]
                     ELSE [batch EXCEPT !.pc = "analyze", !.company = "Acme",
                                        !.articles = articles,
                                        !.analysis_result =
                                            [Company |-> "Acme", Articles |-> <<>>]]
    /\ UNCHANGED <<cache, last, answered, nOps, translations, caller, run, race>>

\* lines 96-136 for one article: extract_title_from_article is not defined
\* in the module, so an article without a usable title ends the run
BatchAnalyze ==
    /\ batch.pc = "analyze"
    /\ IF ~has_title(batch.articles[batch.i])
       THEN batch' = failed(batch, "NameError") /\ UNCHANGED cache
       ELSE \E api \in BatchAnalyzeOutcomes :
              \E r \in {analyze_article(cache, batch.articles[batch.i]["title"],
                                         batch.articles[batch.i].content, api)} :
                  /\ cache' = r.store
                  /\ batch' = analyzed(batch, r)
    /\ UNCHANGED <<last, answered, nOps, translations, caller, run, race>>

\* lines 139-147
BatchCompare ==
    /\ batch.pc = "compare"
    /\ \E api \in BatchCompareOutcomes :
       \E topic_order \in TopicOrders(collect_topics(batch.analysis_result.Articles)) :
         \E r \in {generate_comparative_analysis(cache, batch.company,
                        batch.analysis_result.Articles, api, topic_order)} :
             /\ cache' = r.store
             /\ batch' = IF r.error # ""
                         THEN [failed(batch, r.error) EXCEPT
                                  !.compared = batch.analysis_result.Articles]
                         ELSE [batch EXCEPT
                                  !.pc = "final",
                                  !.stages = Append(@, "compare"),
                                  !.compared = batch.analysis_result.Articles,
                                  !.analysis_result =
                                      Put(@, "Comparative_Sentiment_Score", r.result)]
    /\ UNCHANGED <<last, answered, nOps, translations, caller, run, race>>

\* lines 149-153
BatchFinal ==
    /\ batch.pc = "final"
    /\ \E api \in BatchFinalOutcomes :
         \E r \in {generate_final_sentiment(cache, batch.company,
                                            batch.analysis_result, api)} :
             /\ cache' = r.store
             /\ batch' = IF r.error # ""
                         THEN [failed(batch, r.error) EXCEPT !.prompt = r.prompt]
                         ELSE [batch EXCEPT
                                  !.pc = "tts",
                                  !.stages = Append(@, "final"),
                                  !.prompt = r.prompt,
                                  !.analysis_result =
                                      Put(@, "Final_Sentiment_Analysis", r.result)]
    /\ UNCHANGED <<last, answered, nOps, translations, caller, run, race>>

\* lines 155-159 and generate_tts_and_text (165-200): no failure of the
\* translation or of the speech leaves generate_tts_and_text
BatchTts ==
    /\ batch.pc = "tts"
    /\ LET final_sentiment == batch.analysis_result["Final_Sentiment_Analysis"] IN
       IF final_sentiment = ""
       THEN UNCHANGED translations
       ELSE \E api \in BatchTtsOutcomes :
               translations' = translate_to_hindi(translations, final_sentiment, api).store
    /\ batch' = [batch EXCEPT !.pc = "done", !.stages = Append(@, "tts"),
                              !.returned = batch.analysis_result]
    /\ UNCHANGED <<cache, last, answered, nOps, caller, run, race>>

SpecBatch ==
    Init /\ [][BatchStart \/ BatchAnalyze \/ BatchCompare \/ BatchFinal \/ BatchTts]_vars

RequestAnalyzeOutcomes ==
    BatchAnalyzeOutcomes \ {ApiText(Text("none", "array", None, FALSE))}

\* POST /analyze, once
AnalyzeCompany ==
    /\ nOps = 0
    /\ \E articles \in ScrapedLists, comp_api \in BatchCompareOutcomes,
          final_api \in BatchFinalOutcomes, tts_api \in BatchTtsOutcomes :
       \E outcomes \in [1..Len(articles) -> RequestAnalyzeOutcomes] :
         \E r \in {analyze_company(cache, translations, "Acme", articles, outcomes,
                                    comp_api, <<"earnings">>, final_api, tts_api)} :
             /\ cache' = r.store
             /\ translations' = r.tstore
             /\ last' = [op |-> "analyze_company", input |-> articles,
                         status |-> r.status, error |-> r.error, result |-> r.result,
                         comparative |-> r.comparative, prompt |-> r.prompt,
                         saved |-> r.saved]
             /\ nOps' = nOps + 1
             /\ UNCHANGED <<answered, caller, batch, run, race>>

SpecApi == Init /\ [][AnalyzeCompany]_vars

DefaultCompanies == <<"Tesla", "Apple", "Microsoft", "Google", "Amazon">>

\* load_company_list: data/company_list.csv or the default companies
CompanyLists ==
    { Take(DefaultCompanies, n) : n \in 0..5 }
    \cup { <<"Acme">>, <<"Acme", "Globex Corp", "Acme">> }

\* what process_company returns: None, the record of a run that stopped
\* before the comparison, or the full record
ProcessOutcomes(company) ==
    { [raised |-> FALSE, returned |-> None],
      [raised |-> FALSE, returned |-> [Company |-> company, Articles |-> <<A1>>]],
      [raised |-> FALSE,
       returned |-> [AnalysisResult(company, <<A1, A2, A3>>, FullComparison)
                        EXCEPT !.Company = company]] }

\* lines 227-235
RunStart ==
    /\ run.pc = "idle"
    /\ \E companies \in CompanyLists :
         run' = [run EXCEPT !.pc = IF companies = <<>> THEN "done" ELSE "loop",
                            !.companies = companies,
                            !.results = [@ EXCEPT !.total = Len(companies)]]
    /\ UNCHANGED <<cache, last, answered, nOps, translations, caller, batch, race>>

\* lines 237-253, one iteration
RunProcess ==
    /\ run.pc = "loop"
    /\ \E process \in ProcessOutcomes(run.companies[run.i]), pickled \in BOOLEAN :
         run' = process_next(run, process, pickled)
    /\ UNCHANGED <<cache, last, answered, nOps, translations, caller, batch, race>>

SpecRun == Init /\ [][RunStart \/ RunProcess]_vars

\* lines 108-113
RaceCheck ==
    \E t \in Threads :
        /\ race.pc[t] = "check"
        /\ \E cached_result \in {check_cache(cache, RaceKey)} :
             race' = IF Truthy(cached_result)
                     THEN [race EXCEPT !.pc[t] = "done", !.returned[t] = cached_result]
                     ELSE [race EXCEPT !.pc[t] = "call"]
        /\ UNCHANGED <<cache, last, answered, nOps, translations, caller, batch, run>>

\* lines 115-189: the call of the model and the record built from its reply
RaceCall ==
    \E t \in Threads :
        /\ race.pc[t] = "call"
        /\ \E api \in {ApiFailure} \cup {ApiText(text) : text \in RaceReplies} :
             \E r \in {analyze_article(<<>>, RaceSource.title, RaceSource.content, api)} :
                 race' = IF r.error # ""
                         THEN [race EXCEPT !.pc[t] = "raised"]
                         ELSE [race EXCEPT !.pc[t] = "open", !.result[t] = r.result]
        /\ UNCHANGED <<cache, last, answered, nOps, translations, caller, batch, run>>

\* line 89: open(cache_path, 'w') empties the file
RaceOpen ==
    \E t \in Threads :
        /\ race.pc[t] = "open"
        /\ cache' = [k \in DOMAIN cache \cup {RaceKey} |->
                        IF k = RaceKey THEN Truncated ELSE cache[k]]
        /\ race' = [race EXCEPT !.pc[t] = "write"]
        /\ UNCHANGED <<last, answered, nOps, translations, caller, batch, run>>

\* lines 90 and 193: json.dump, the file is closed, the record is returned
RaceWrite ==
    \E t \in Threads :
        /\ race.pc[t] = "write"
        /\ cache' = [cache EXCEPT ![RaceKey] = overwrite(@, race.result[t])]
        /\ race' = [race EXCEPT !.pc[t] = "done", !.returned[t] = race.result[t],
                                !.writes = Append(@, t)]
        /\ UNCHANGED <<last, answered, nOps, translations, caller, batch, run>>

SpecRace == Init /\ [][RaceCheck \/ RaceCall \/ RaceOpen \/ RaceWrite]_vars

\* one iteration of the loop of _call_api_with_retry
Attempt ==
    /\ caller.pc = "loop"
    /\ \E outcome \in AttemptOutcomes : caller' = attempt(caller, outcome)
    /\ UNCHANGED <<cache, last, answered, nOps, translations, batch, run, race>>

\* generate_content answers or raises and time.sleep returns, so a loop
\* that can take an iteration takes it
SpecRetry == Init /\ [][Attempt]_vars /\ WF_vars(Attempt)

(***************************************************************************)
(* Properties                                                              *)
(***************************************************************************)
IsAnalyze == last.op = "analyze_article"

IsCompare == last.op = "generate_comparative_analysis"

Returned == last.error = ""

\* the threshold table of the data model
ThresholdLabel(s) ==
    CASE s <= 150 -> "Very Negative"
      [] s > 150 /\ s <= 250 -> "Negative"
      [] s > 250 /\ s <= 350 -> "Neutral"
      [] s > 350 /\ s <= 450 -> "Positive"
      [] OTHER -> "Very Positive"

ReplyHasNumericScore ==
    /\ ~last.api.raised
    /\ last.api.text.json = "object"
    /\ "Sentiment_Score" \in DOMAIN last.api.text.obj
    /\ last.api.text.numeric

\* C1: on the cache-miss path, for every numeric Sentiment_Score s of the
\* model's reply, analyze_article returns a record whose Sentiment is the
\* threshold-table label of s, whatever label the reply carried; the eight
\* boundary scores get the labels the table gives them.
C1_LabelFollowsScore ==
    (IsAnalyze /\ last.path = "miss" /\ ReplyHasNumericScore) =>
        LET s == last.api.text.obj["Sentiment_Score"]
            label == last.result["Sentiment"]
        IN  /\ Returned
            /\ last.result["Sentiment_Score"] = s
            /\ label = ThresholdLabel(s)
            /\ (s = 150 => label = "Very Negative")
            /\ (s = 151 => label = "Negative")
            /\ (s = 250 => label = "Negative")
            /\ (s = 251 => label = "Neutral")
            /\ (s = 350 => label = "Neutral")
            /\ (s = 351 => label = "Positive")
            /\ (s = 450 => label = "Positive")
            /\ (s = 451 => label = "Very Positive")

C1_Witness ==
    /\ IsAnalyze /\ last.path = "miss" /\ ReplyHasNumericScore
    /\ last.api.text.obj["Sentiment_Score"] = 151
    /\ last.api.text.obj["Sentiment"] = "Neutral"
    /\ last.result["Sentiment"] = "Negative"

DistributionSum(dist) ==
    dist["Very Positive"] + dist["Positive"] + dist["Neutral"]
    + dist["Negative"] + dist["Very Negative"]

\* C2: every generate_comparative_analysis call with a non-empty article
\* list, after any earlier calls (the cache may answer), returns a
\* Sentiment_Distribution whose five counts sum to len(articles).
C2_CountsSumToArticles ==
    (IsCompare /\ Returned /\ last.input.articles # <<>>) =>
        /\ "Sentiment_Distribution" \in DOMAIN last.result
        /\ DistributionSum(last.result["Sentiment_Distribution"])
             = Len(last.input.articles)

\* the number of articles carrying a label; an article without a Sentiment
\* field is read as Neutral
Carrying(articles, label) ==
    Cardinality({i \in DOMAIN articles :
                    Get(articles[i], "Sentiment", "Neutral") = label})

RECURSIVE ScoreSum(_, _)
ScoreSum(articles, n) ==
    IF n = 0 THEN 0
    ELSE ScoreSum(articles, n - 1)
         + (IF "Sentiment_Score" \in DOMAIN articles[n]
            THEN articles[n]["Sentiment_Score"] ELSE 300)

\* avg is the arithmetic mean of the scores (a missing score counts as 3),
\* and 3.0 for no articles
IsLocalMean(avg, articles) ==
    IF articles = <<>>
    THEN avg.num = 3 /\ avg.den = 1
    ELSE /\ avg.den > 0
         /\ avg.num * 100 * Len(articles)
              = ScoreSum(articles, Len(articles)) * avg.den

\* C3: when the model's reply parses, the returned Sentiment_Distribution
\* maps each label to the number of input articles carrying it and
\* Average_Sentiment_Score is the local mean, whatever the reply proposed;
\* articles scored 1.0, 5.0, 3.0 give Very Negative 1, Very Positive 1,
\* Neutral 1, Positive 0, Negative 0 and average 3.0.
C3_LocalCountsOverwriteReply ==
    (IsCompare /\ last.path = "miss" /\ Returned) =>
        /\ \A label \in SentimentLabels :
              last.result["Sentiment_Distribution"][label]
                = Carrying(last.input.articles, label)
        /\ IsLocalMean(last.result["Average_Sentiment_Score"],
                       last.input.articles)
        /\ (last.input.articles = <<A1, A2, A3>> =>
              /\ last.result["Sentiment_Distribution"] =
                   [label \in SentimentLabels |->
                      IF label \in {"Very Negative", "Very Positive", "Neutral"}
                      THEN 1 ELSE 0]
              /\ last.result["Average_Sentiment_Score"] = [num |-> 3, den |-> 1])

C3_Witness ==
    /\ IsCompare /\ last.path = "miss" /\ Returned
    /\ last.input.articles = <<A1, A2, A3>>
    /\ "Sentiment_Distribution" \in DOMAIN last.api.text.obj
    /\ "Average_Sentiment_Score" \in DOMAIN last.api.text.obj
    /\ last.api.text.obj["Sentiment_Distribution"]
         # last.result["Sentiment_Distribution"]
    /\ last.api.text.obj["Average_Sentiment_Score"]
         # last.result["Average_Sentiment_Score"]

\* C4: on a cache miss, on the successful-parse and on the degraded path,
\* Average_Sentiment_Score is the arithmetic mean of the articles' scores (a
\* missing score counting as 3), and exactly 3.0 for an empty article list.
C4_AverageIsMean ==
    (IsCompare /\ last.path \in {"miss", "degraded"} /\ Returned) =>
        IsLocalMean(last.result["Average_Sentiment_Score"], last.input.articles)

C4_Witness ==
    /\ IsCompare /\ last.path = "degraded" /\ Returned
    /\ last.input.articles = <<>>
    /\ last.result["Average_Sentiment_Score"] = [num |-> 3, den |-> 1]

\* C5: every result generate_comparative_analysis returns without raising
\* (successful parse, degraded path or cache hit) has a non-empty
\* Coverage_Differences list.
C5_CoverageNeverEmpty ==
    (IsCompare /\ Returned) =>
        /\ "Coverage_Differences" \in DOMAIN last.result
        /\ last.result["Coverage_Differences"] # <<>>

FirstTwoTitles(articles) ==
    [i \in 1..(IF Len(articles) < 2 THEN Len(articles) ELSE 2) |->
        articles[i]["Title"]]

ReplyLacksDifferences ==
    /\ ~last.api.raised
    /\ last.api.text.json = "object"
    /\ \/ "Coverage_Differences" \notin DOMAIN last.api.text.obj
       \/ last.api.text.obj["Coverage_Differences"] = <<>>

\* C6: when the reply parses but Coverage_Differences is absent or empty,
\* the result has exactly one Coverage_Differences entry, with the fixed
\* Comparison and Impact texts and Articles_Involved equal to the titles of
\* the first two input articles, verbatim and in input order.
C6_FallbackDifference ==
    (IsCompare /\ last.path = "miss" /\ ReplyLacksDifferences) =>
        /\ Returned
        /\ last.result["Coverage_Differences"] =
             << [Comparison |-> "Differences in reporting emphasis",
                 Articles_Involved |-> FirstTwoTitles(last.input.articles),
                 Impact |-> "Creates varied impressions of company priorities"] >>

C6_Witness ==
    /\ IsCompare /\ last.path = "miss" /\ ReplyLacksDifferences /\ Returned
    /\ "Coverage_Differences" \in DOMAIN last.api.text.obj
    /\ Len(last.input.articles) = 4
    /\ last.result["Coverage_Differences"][1].Articles_Involved
         = <<"Acme Q3 profit", "Acme recalls product line A">>

ReplyIsNotJson ==
    /\ last.path # "hit"
    /\ ~last.api.raised
    /\ last.api.text.json = "invalid"

\* C7: when the aggregation call returns text that is not parseable JSON,
\* generate_comparative_analysis does not raise: it returns and caches a
\* degraded result with the local distribution and average, the trend
\* 'Unable to determine due to processing error', one fallback
\* Coverage_Differences entry, empty Positive_Factors and Negative_Factors
\* and an empty Topic_Sentiment_Map.
C7_DegradedResult ==
    (IsCompare /\ ReplyIsNotJson) =>
        /\ Returned
        /\ \A label \in SentimentLabels :
              last.result["Sentiment_Distribution"][label]
                = Carrying(last.input.articles, label)
        /\ IsLocalMean(last.result["Average_Sentiment_Score"],
                       last.input.articles)
        /\ last.result["Sentiment_Trend"]
             = "Unable to determine due to processing error"
        /\ Len(last.result["Coverage_Differences"]) = 1
        /\ last.result["Coverage_Differences"][1].Articles_Involved
             = FirstTwoTitles(last.input.articles)
        /\ last.result["Sentiment_Drivers"]
             = [Positive_Factors |-> <<>>, Negative_Factors |-> <<>>]
        /\ last.result["Topic_Analysis"].Topic_Sentiment_Map = <<>>
        /\ \E k \in DOMAIN cache :
              /\ k = comparative_cache_key(last.input.company_name,
                                           last.input.articles)
              /\ json_load(cache[k]) = last.result

C7_Witness ==
    /\ IsCompare /\ ReplyIsNotJson /\ Returned
    /\ last.input.articles = <<A1, A3, A2>>
    /\ last.result["Sentiment_Trend"]
         = "Unable to determine due to processing error"
    /\ DOMAIN cache # {}

\* C8: generate_comparative_analysis raises only when the outbound model
\* call itself fails: for every text the call returns (unparseable, or valid
\* JSON of any shape, an object or not) it returns a result and raises
\* nothing.
C8_RaisesOnlyOnCallFailure ==
    (IsCompare /\ ~Returned) => last.api.raised

AnalyzeKey(src) == get_cache_key(src.title \o "_" \o Take(src.content, 1000))

\* C9: with a working store, two analyze_article calls with identical
\* (title, content) issue the model call exactly once: the call that first
\* answers from the model issues one call and populates the cache, and each
\* later call issues none and returns a record equal to the first answer.
C9_SecondCallIsCached ==
    \A src \in DOMAIN answered :
        /\ answered[src].path = "miss" => answered[src].calls = 1
        /\ AnalyzeKey(src) \in DOMAIN cache
        /\ json_load(cache[AnalyzeKey(src)]) = answered[src].result
        /\ (IsAnalyze /\ last.input = src /\ answered[src].at < nOps) =>
              /\ Returned
              /\ last.calls = 0
              /\ last.result = answered[src].result

C9_Witness ==
    /\ IsAnalyze /\ last.path = "hit"
    /\ last.input \in DOMAIN answered
    /\ answered[last.input].path = "miss"
    /\ answered[last.input].at < nOps
    /\ last.result = answered[last.input].result
    /\ last.input.title = "Acme Q3 profit"

\* C10: when analyze_article fails (the model call raises, or the reply
\* cannot be parsed as JSON) the failure propagates to the caller and the
\* cache is left unchanged, with no record under the article's key.
C10_FailureLeavesCache ==
    [][ (last'.op = "analyze_article" /\ nOps' = nOps + 1) =>
          /\ (last'.path # "hit"
              /\ (last'.api.raised \/ last'.api.text.json = "invalid"))
                => last'.error # ""
          /\ last'.error # "" =>
                /\ cache' = cache
                /\ AnalyzeKey(last'.input) \notin DOMAIN cache' ]_vars

C10_Witness ==
    /\ IsAnalyze /\ last.error = "JSONDecodeError"
    /\ last.api.text.fence = "json"
    /\ AnalyzeKey(last.input) \notin DOMAIN cache

(***************************************************************************)
(* Properties of _call_api_with_retry                                      *)
(***************************************************************************)
CallEnded == caller.pc \in {"returned", "raised"}

RateLimited(outcome) == ~outcome.ok /\ outcome.status = 429

LastAttempt == caller.attempts[Len(caller.attempts)]

\* every sleep so far is followed by an attempt, except the one a loop
\* that has not ended is about to follow
SleepsBetweenAttempts ==
    Len(caller.sleeps) = Len(caller.attempts) - (IF CallEnded THEN 1 ELSE 0)

BackoffSchedule == <<2, 4, 8>>

\* C11: under rate-limit failures _call_api_with_retry retries at most 3
\* times (at most 4 attempts), sleeps 2, 4 and 8 seconds before the first,
\* second and third retry, retries only after a rate-limit failure, returns
\* the text of the first attempt that succeeds, and always ends by
\* returning or raising.
C11_BoundedBackoff ==
    /\ [](/\ Len(caller.attempts) <= 4
          /\ Len(caller.sleeps) <= 3
          /\ caller.sleeps = SubSeq(BackoffSchedule, 1, Len(caller.sleeps))
          /\ Len(caller.attempts) > 0 => SleepsBetweenAttempts
          /\ \A i \in 1..Len(caller.sleeps) : RateLimited(caller.attempts[i])
          /\ caller.pc = "returned" =>
                /\ LastAttempt.ok
                /\ caller.text = LastAttempt.text
                /\ \A i \in 1..(Len(caller.attempts) - 1) : ~caller.attempts[i].ok)
    /\ <>CallEnded

\* three rate-limit failures, three sleeps, and the fourth attempt answers
C11_Witness ==
    /\ caller.pc = "returned"
    /\ Len(caller.attempts) = 4
    /\ caller.sleeps = <<2, 4, 8>>

\* C12: a failure that is not a rate limit is raised at once, with no sleep
\* and no attempt after it; when rate-limit failures use up the retries, the
\* failure raised is the one of the last (fourth) attempt.
C12_RaisesLastFailure ==
    caller.pc = "raised" =>
        /\ ~LastAttempt.ok
        /\ caller.raised = LastAttempt.message
        /\ Len(caller.sleeps) = Len(caller.attempts) - 1
        /\ RateLimited(LastAttempt) => Len(caller.attempts) = 4
        /\ \A i \in 1..Len(caller.attempts) :
              ~RateLimited(caller.attempts[i]) => i = Len(caller.attempts)

\* the retries are used up by rate-limit failures of which the last differs
\* from the first
C12_Witness ==
    /\ caller.pc = "raised"
    /\ Len(caller.attempts) = 4
    /\ RateLimited(LastAttempt)
    /\ caller.attempts[1].message # LastAttempt.message

\* a failure that is not a rate limit ends the call after one retry
C12_WitnessImmediate ==
    /\ caller.pc = "raised"
    /\ Len(caller.attempts) = 2
    /\ ~RateLimited(LastAttempt)

(***************************************************************************)
(* Properties of the cache store under failures and of translate_to_hindi  *)
(***************************************************************************)
IsTranslate == last.op = "translate_to_hindi"

\* the translations directory's entry for the text of the latest operation
TranslationKey == translation_cache_key(last.input)

\* the file of the operation's key could not be read when it started
EntryUnreadable == last.entry \in {"garbled", "locked"}

Padding == {"", " ", "  ", "\n", " \n"}

\* result is the text with the white space around it removed
IsStripped(text, result) ==
    text \in {before \o result \o after : before, after \in Padding}

\* C13: a failure of the cache store never reaches the caller of
\* analyze_article or translate_to_hindi. An entry that cannot be read or
\* parsed is a miss: the external call is issued, its result is returned,
\* and the only failures raised are those of the call and of its reply. A
\* write that fails is dropped: the result is returned all the same.
C13_StoreFailureIsAMiss ==
    /\ (IsAnalyze /\ EntryUnreadable) =>
          /\ last.path = "miss" /\ last.calls = 1
          /\ last.error \in {"", "ApiError", "JSONDecodeError", "TypeError"}
          /\ last.error = "ApiError" <=> last.api.raised
          /\ ReplyHasNumericScore =>
                /\ Returned
                /\ last.result["Summary"] = last.api.text.obj["Summary"]
                /\ last.result["Sentiment_Score"] = last.api.text.obj["Sentiment_Score"]
          /\ last.entry = "locked" => cache[AnalyzeKey(last.input)] = Locked
    /\ (IsTranslate /\ EntryUnreadable) =>
          /\ last.path = "miss" /\ Len(last.sent) = 1
          /\ last.error \in {"", TranslationFailed}
          /\ last.error = TranslationFailed <=> ~last.answers[1].ok
          /\ last.answers[1].ok => IsStripped(last.answers[1].text, last.result)
          /\ last.entry = "locked" => translations[TranslationKey] = Locked

\* an article is analysed while the file of its key cannot be opened: the
\* model is called, the record is returned and the write is dropped
C13_Witness ==
    /\ IsAnalyze /\ last.entry = "locked"
    /\ Returned /\ last.calls = 1
    /\ last.result["Sentiment_Score"] = 351
    /\ cache[AnalyzeKey(last.input)] = Locked

\* the reply of every translation call of the latest operation, stripped
ChunkResult(i) == strip(last.answers[i].text)

\* C14: a translation that is not answered from the cache issues exactly
\* one call for a text shorter than 4000 characters, and for a text of
\* exactly 8000 characters exactly two calls, for the first and the second
\* 4000 characters in that order, and returns the first call's result
\* followed by the second call's result and nothing else.
C14_OneCallPerChunk ==
    (IsTranslate /\ last.path = "miss") =>
        /\ Len(last.input) < 4000 =>
              last.sent = <<translation_prompt(last.input)>>
        /\ Len(last.input) = 8000 =>
              /\ Len(last.sent) = 2
              /\ last.sent[1] = translation_prompt(SubSeq(last.input, 1, 4000))
              /\ last.sent[2] = translation_prompt(SubSeq(last.input, 4001, 8000))
              /\ (last.answers[1].ok /\ last.answers[2].ok) =>
                    /\ Returned
                    /\ last.result = ChunkResult(1) \o ChunkResult(2)

\* C15: if the translation call of any chunk fails, translate_to_hindi
\* raises: it returns no text and writes nothing to the translation cache.
C15_ChunkFailureAborts ==
    (IsTranslate /\ \E i \in DOMAIN last.answers : ~last.answers[i].ok) =>
        /\ ~Returned
        /\ last.result = ""
        /\ last.written = {}

\* C16: a translation that is returned and was not answered from the cache
\* adds exactly one entry, the full translation under the key of the first
\* 1000 characters of the text; once a key has an entry, every call whose
\* text has that key returns the stored translation and issues no call.
C16_OneEntryPerTranslation ==
    [][ (last'.op = "translate_to_hindi" /\ nOps' = nOps + 1) =>
          LET cache_key == get_cache_key(SubSeq(last'.input, 1,
                               IF Len(last'.input) < 1000 THEN Len(last'.input) ELSE 1000))
          IN  /\ (cache_key \notin DOMAIN translations /\ last'.error = "") =>
                    /\ DOMAIN translations' = DOMAIN translations \cup {cache_key}
                    /\ translations'[cache_key] = [json |-> [translation |-> last'.result]]
                    /\ \A k \in DOMAIN translations : translations'[k] = translations[k]
              /\ cache_key \in DOMAIN translations =>
                    /\ last'.error = ""
                    /\ last'.sent = <<>> /\ last'.fallbacks = <<>>
                    /\ last'.result = translations[cache_key].json.translation
                    /\ translations' = translations ]_vars

(***************************************************************************)
(* Properties of generate_final_sentiment                                  *)
(***************************************************************************)
IsFinal == last.op = "generate_final_sentiment"

\* C17: generate_final_sentiment is cached by company name alone: once a
\* final sentiment is stored for a company, every later call for that
\* company returns the stored string and issues no external call, whatever
\* analysis_result it is given, and leaves the cache as it is.
C17_FinalCachedByCompany ==
    [][ (last'.op = "generate_final_sentiment" /\ nOps' = nOps + 1) =>
          LET company == [company |-> last'.input.Company]
              cache_key == <<"md5", "final_" \o last'.input.Company>>
          IN  company \in DOMAIN answered =>
                /\ last'.error = ""
                /\ last'.calls = 0
                /\ last'.result = answered[company].result
                /\ cache_key \in DOMAIN cache
                /\ cache' = cache /\ answered' = answered ]_vars

\* a company's stored final sentiment answers a call whose analysis_result
\* has other articles and another comparison than the one it came from
C17_Witness ==
    /\ IsFinal /\ last.path = "hit" /\ last.calls = 0
    /\ last.input.Company = "Acme"
    /\ answered[[company |-> "Acme"]].analysis_result # last.input
    /\ last.result = answered[[company |-> "Acme"]].result
    /\ last.result = "Coverage is dominated by the recall."

(***************************************************************************)
(* Properties of the cache key of generate_comparative_analysis            *)
(***************************************************************************)
\* the first 20 characters of the title of each of the first three articles
TitleStarts(articles) ==
    [i \in 1..(IF Len(articles) < 3 THEN Len(articles) ELSE 3) |->
        SubSeq(articles[i]["Title"], 1,
               IF Len(articles[i]["Title"]) < 20 THEN Len(articles[i]["Title"]) ELSE 20)]

\* C18: when a generate_comparative_analysis call has returned and the next
\* call is for the same company with an article list that agrees with the
\* first on the first 20 characters of each of the first three titles, the
\* next call returns the result of the first and issues no external call,
\* whatever else the two lists hold.
C18_SameTitleStartsShareEntry ==
    [][ (/\ IsCompare /\ Returned
         /\ last'.op = "generate_comparative_analysis" /\ nOps' = nOps + 1
         /\ last'.input.company_name = last.input.company_name
         /\ TitleStarts(last'.input.articles) = TitleStarts(last.input.articles))
        => /\ last'.error = ""
           /\ last'.calls = 0
           /\ last'.result = last.result
           /\ cache' = cache ]_vars

\* a list of four articles is answered with the counts of a list of three
\* whose titles start alike
C18_Witness ==
    /\ IsCompare /\ last.path = "hit" /\ last.calls = 0
    /\ last.input.articles = <<A1, A3, A2, A5>>
    /\ last.result["Sentiment_Distribution"]["Very Positive"] = 1
    /\ DistributionSum(last.result["Sentiment_Distribution"]) = 3

(***************************************************************************)
(* Properties of the score and the label of an analysed article           *)
(***************************************************************************)
\* C19: every record analyze_article returns has a Sentiment_Score that is
\* a number from 1 to 5, whatever score the model's reply carried.
C19_ScoreInRange ==
    (IsAnalyze /\ Returned) =>
        /\ "Sentiment_Score" \in DOMAIN last.result
        /\ last.result["Sentiment_Score"] \in 100..500

\* C20: in process_company, every record of analysis_result["Articles"],
\* and every record of the list given to generate_comparative_analysis,
\* has the Sentiment that the five-label threshold table gives its
\* Sentiment_Score.
C20_BatchLabelFollowsTable ==
    /\ batch.pc # "idle" /\ Truthy(batch.analysis_result) =>
          \A i \in DOMAIN batch.analysis_result.Articles :
             batch.analysis_result.Articles[i]["Sentiment"]
                = ThresholdLabel(batch.analysis_result.Articles[i]["Sentiment_Score"])
    /\ \A i \in DOMAIN batch.compared :
          batch.compared[i]["Sentiment"]
             = ThresholdLabel(batch.compared[i]["Sentiment_Score"])

(***************************************************************************)
(* Properties of the two drivers: POST /analyze and process_company        *)
(***************************************************************************)
IsRequest == last.op = "analyze_company"

\* hundredths is the fraction avg shown with two decimals
TwoDecimals(avg, hundredths) ==
    /\ 2 * avg.den * hundredths <= 200 * avg.num + avg.den
    /\ 200 * avg.num + avg.den < 2 * avg.den * (hundredths + 1)

\* the prompt shows the average and the drivers of the comparison
PromptShows(prompt, comparison) ==
    /\ "Average_Sentiment_Score" \in DOMAIN comparison
    /\ TwoDecimals(comparison["Average_Sentiment_Score"], prompt.overall_trend)
    /\ "Sentiment_Drivers" \in DOMAIN comparison
    /\ prompt.positive_factors
          = Join(", ", comparison["Sentiment_Drivers"]["Positive_Factors"])
    /\ prompt.negative_factors
          = Join(", ", comparison["Sentiment_Drivers"]["Negative_Factors"])

\* C21: in the /analyze request and in process_company, the prompt that
\* generate_final_sentiment builds shows the Average_Sentiment_Score and the
\* Positive_Factors and Negative_Factors of the comparative analysis computed
\* earlier in the same run, not the defaults 3.0 and empty lists.
C21_PromptUsesComparison ==
    /\ (IsRequest /\ Truthy(last.prompt)) => PromptShows(last.prompt, last.comparative)
    /\ Truthy(batch.prompt) =>
          PromptShows(batch.prompt, batch.analysis_result["Comparative_Sentiment_Score"])

(***************************************************************************)
(* Properties of process_all_companies                                     *)
(***************************************************************************)
\* C22: a company that fails never stops the batch run: the companies are
\* processed once each, in the order of the list, each is counted once as
\* success or as failed, and when the run ends success + failed = total.
C22_EveryCompanyCounted ==
    /\ Len(run.processed) <= Len(run.companies)
    /\ \A k \in 1..Len(run.processed) : run.processed[k].company = run.companies[k]
    /\ run.results.success = Cardinality({k \in 1..Len(run.processed) : run.processed[k].ok})
    /\ run.results.failed = Cardinality({k \in 1..Len(run.processed) : ~run.processed[k].ok})
    /\ run.pc = "loop" => Len(run.processed) < Len(run.companies)
    /\ run.pc = "done" =>
          /\ Len(run.processed) = Len(run.companies)
          /\ run.results.total = Len(run.companies)
          /\ run.results.success + run.results.failed = run.results.total

\* a run of three companies ends after the first and the last failed
C22_Witness ==
    /\ run.pc = "done"
    /\ Len(run.companies) = 3
    /\ ~run.processed[1].ok /\ run.processed[2].ok /\ ~run.processed[3].ok
    /\ run.results = [total |-> 3, success |-> 1, failed |-> 2]

(***************************************************************************)
(* Properties of the four operations over the one store                    *)
(***************************************************************************)
\* C23: with a working store the cache only grows under analyze_article,
\* generate_comparative_analysis, generate_final_sentiment and
\* generate_query_response: an entry that was written is never removed and
\* never written again with a different value.
C23_CacheOnlyGrows ==
    [][\A k \in DOMAIN cache : k \in DOMAIN cache' /\ cache'[k] = cache[k]]_vars

\* the value an operation other than analyze_article put into the store
StoredBy(call) ==
    CASE call.op = "generate_final_sentiment" -> [sentiment |-> call.result]
      [] call.op = "generate_query_response" -> query_entry(call.api.text)
      [] OTHER -> call.result

\* C28: a record written by generate_comparative_analysis,
\* generate_final_sentiment or generate_query_response is never what
\* analyze_article returns, whatever the title and the content are: a call
\* of analyze_article that follows a write of one of the three does not
\* return what was written.
C28_AnalyzeServesItsOwnRecords ==
    [][(/\ nOps' = nOps + 1
        /\ last'.op = "analyze_article" /\ last'.error = ""
        /\ last.op \notin {"none", "analyze_article"}
        /\ last.error = "" /\ last.path = "miss")
       => last'.result # StoredBy(last)]_vars

(***************************************************************************)
(* Properties of generate_query_response                                   *)
(***************************************************************************)
\* C29: generate_query_response called twice with the same company_name
\* and query calls the model once only, and the second call returns the
\* string the first call returned, whatever white space surrounds the
\* model's reply.
C29_RepeatedQueryReturnsTheSame ==
    [][(/\ nOps' = nOps + 1
        /\ last.op = "generate_query_response" /\ last.error = ""
        /\ last'.op = "generate_query_response" /\ last'.input = last.input)
       => /\ last'.error = ""
          /\ last'.calls = 0
          /\ last'.result = last.result]_vars

(***************************************************************************)
(* Properties of the pacing of translate_to_hindi                          *)
(***************************************************************************)
\* C24: a translation that is not answered from the cache submits the
\* chunks of the text one at a time in their order and sleeps 1 second
\* between consecutive submissions: n chunks cost n - 1 seconds of sleep,
\* a text of one chunk costs none.
C24_SleepsBetweenChunks ==
    (IsTranslate /\ last.path = "miss") =>
        LET chunks == split_for_translation(last.input)
        IN  /\ last.sent = [i \in 1..Len(chunks) |-> translation_prompt(chunks[i])]
            /\ last.slept = Len(chunks) - 1

(***************************************************************************)
(* Properties of the record analyze_article builds from the reply          *)
(***************************************************************************)
\* the object of the latest reply
ReplyObject == last.api.text.obj

DefaultOf(result, field) ==
    CASE field \in {"Topics", "Sentiment_Indicators"} -> result[field] = <<>>
      [] field = "Sentiment_Score" -> result[field] = 300
      [] OTHER -> result[field] = ""

\* C25: on a cache miss answered with a JSON object, analyze_article returns
\* the object with every absent required field at its default (Topics and
\* Sentiment_Indicators the empty list, Sentiment_Score 3, Summary the
\* empty string), with the input title as Title when the reply's Title is
\* absent or empty, and with every field of the reply other than Sentiment
\* as the reply has it.
C25_AbsentFieldsDefaulted ==
    (last.op = "analyze_article" /\ last.path = "miss" /\ Returned) =>
        LET titled == "Title" \in DOMAIN ReplyObject /\ ReplyObject["Title"] # ""
        IN  /\ DOMAIN last.result = DOMAIN ReplyObject \cup required_fields
            /\ \A field \in required_fields \ (DOMAIN ReplyObject \cup {"Title", "Sentiment"}) :
                  DefaultOf(last.result, field)
            /\ ~titled => last.result["Title"] = last.input.title
            /\ \A field \in DOMAIN ReplyObject \ {"Sentiment"} :
                  (field # "Title" \/ titled) => last.result[field] = ReplyObject[field]

\* the reply {} is returned as the record of defaults under the input title
C25_Witness ==
    /\ last.op = "analyze_article" /\ last.path = "miss" /\ Returned
    /\ ReplyObject = None
    /\ last.result = [Title |-> last.input.title, Summary |-> "", Sentiment |-> "Neutral",
                      Sentiment_Score |-> 300, Topics |-> <<>>,
                      Sentiment_Indicators |-> <<>>]

\* a reply without Title and with a field of its own keeps that field
C25_WitnessOwnField ==
    /\ last.op = "analyze_article" /\ last.path = "miss" /\ Returned
    /\ "Source" \in DOMAIN ReplyObject
    /\ last.result["Source"] = "wire"
    /\ last.result["Title"] = last.input.title
    /\ last.result["Sentiment_Score"] = 420

(***************************************************************************)
(* Properties of the topics of generate_comparative_analysis               *)
(***************************************************************************)
\* the distinct members of a list, each at its first occurrence
RECURSIVE InOrderSeen(_, _)
InOrderSeen(topics, seen) ==
    IF topics = <<>> THEN <<>>
    ELSE IF topics[1] \in seen THEN InOrderSeen(Tail(topics), seen)
    ELSE <<topics[1]>> \o InOrderSeen(Tail(topics), seen \cup {topics[1]})

\* C26: when the reply has no Topic_Analysis, and on the degraded path, the
\* Common_Topics returned are the first 5 distinct topics of the articles
\* in the order in which they are seen (so at most 5, none twice); no
\* returned result has more than 5 Common_Topics.
C26_CommonTopicsInOrderSeen ==
    (last.op = "generate_comparative_analysis" /\ Returned) =>
        /\ Len(last.result["Topic_Analysis"].Common_Topics) <= 5
        /\ (\/ last.path = "degraded"
            \/ last.path = "miss" /\ "Topic_Analysis" \notin DOMAIN last.api.text.obj)
           => last.result["Topic_Analysis"].Common_Topics
                = Take(InOrderSeen(collect_topics(last.input.articles), {}), 5)

(***************************************************************************)
(* Properties of two concurrent calls of analyze_article                   *)
(***************************************************************************)
RaceOver == \A t \in Threads : race.pc[t] \in {"done", "raised"}

\* C27: two threads in analyze_article for the same title and content,
\* starting from an empty cache: when both are through, the entry holds
\* exactly the record of the thread that wrote last, each thread that
\* returned has a complete record whose label is the label of its score,
\* and the two returned records are equal.
C27_ConcurrentCallsAgree ==
    RaceOver =>
        /\ race.writes # <<>> =>
              cache[RaceKey] = json_dump(race.result[race.writes[Len(race.writes)]])
        /\ \A t \in Threads : race.pc[t] = "done" =>
              /\ required_fields \subseteq DOMAIN race.returned[t]
              /\ race.returned[t]["Sentiment"]
                    = ThresholdLabel(race.returned[t]["Sentiment_Score"])
        /\ (\A t \in Threads : race.pc[t] = "done") => race.returned[1] = race.returned[2]

\* the three parts of C27, one at a time
C27_EntryOfLastWriter ==
    (RaceOver /\ race.writes # <<>>) =>
        cache[RaceKey] = json_dump(race.result[race.writes[Len(race.writes)]])

C27_ReturnedComplete ==
    \A t \in Threads : race.pc[t] = "done" =>
        /\ required_fields \subseteq DOMAIN race.returned[t]
        /\ race.returned[t]["Sentiment"] = ThresholdLabel(race.returned[t]["Sentiment_Score"])

C27_ReturnedEqual ==
    (\A t \in Threads : race.pc[t] = "done") => race.returned[1] = race.returned[2]

(***************************************************************************)
(* Properties of the stages of process_company                             *)
(***************************************************************************)
\* C30: process_company analyses every article, then compares, then asks
\* for the final sentiment, then translates and speaks; an analysis that
\* fails only leaves its article out; the three later stages run only when
\* at least 3 articles were analysed, and with fewer the record is returned
\* without comparison, final sentiment or translation, to be saved and
\* counted as a success.
C30_StagesAfterThreeAnalyses ==
    /\ [](/\ batch.stages \in {<<>>, <<"compare">>, <<"compare", "final">>,
                               <<"compare", "final", "tts">>}
          /\ (batch.pc \in {"compare", "final", "tts"} \/ batch.stages # <<>>) =>
                /\ batch.i > Len(batch.articles)
                /\ batch.successful_analyses >= 3
                /\ batch.successful_analyses = Len(batch.analysis_result.Articles)
          /\ (/\ batch.pc = "done" /\ batch.error = "" /\ batch.articles # <<>>
              /\ batch.successful_analyses < 3) =>
                /\ batch.stages = <<>>
                /\ batch.i > Len(batch.articles)
                /\ batch.returned = batch.analysis_result
                /\ DOMAIN batch.returned = {"Company", "Articles"}
                /\ Len(batch.returned.Articles) = batch.successful_analyses
                /\ save_result(batch.company, batch.returned, TRUE))
    /\ [][(batch.pc = "analyze" /\ has_title(batch.articles[batch.i]) /\ batch' # batch) =>
            /\ batch'.error = ""
            /\ batch'.i = batch.i + 1
            /\ batch'.successful_analyses = batch.successful_analyses =>
                  batch'.analysis_result = batch.analysis_result
            /\ batch'.pc = IF batch.i < Len(batch.articles) THEN "analyze"
                           ELSE IF batch'.successful_analyses >= 3 THEN "compare"
                           ELSE "done"]_vars

\* three articles, one analysis failed: the record of the two is returned
C30_Witness ==
    /\ batch.pc = "done" /\ batch.error = ""
    /\ Len(batch.articles) = 3 /\ batch.successful_analyses = 2
    /\ Len(batch.returned.Articles) = 2
    /\ batch.stages = <<>>

\* four articles, one analysis failed: all the stages ran
C30_WitnessAllStages ==
    /\ batch.pc = "done" /\ batch.error = ""
    /\ Len(batch.articles) = 4 /\ batch.successful_analyses = 3
    /\ batch.stages = <<"compare", "final", "tts">>
    /\ "Final_Sentiment_Analysis" \in DOMAIN batch.returned

====
